---- MODULE Spec2Model ----
(***************************************************************************)
(* A model of the COLi / tiramisu core (include/coli/core.h): the library  *)
(* with its two tag maps, computations with their iteration set, schedule, *)
(* access relation and time-processor set, and the schedule algebra        *)
(* (split, interchange, tile, set_schedule).                               *)
(*                                                                         *)
(* isl sets and maps are modelled extensionally: a set is a tuple name and *)
(* a finite set of integer tuples, a map is a pair of tuple names and a    *)
(* finite set of <<input tuple, output tuple>> pairs.                      *)
(***************************************************************************)
EXTENDS Integers, Sequences, FiniteSets, TLC

\* ----------------------------------------------------------------------
\* Bounds of the model
\* ----------------------------------------------------------------------
MaxCalls == 4
MaxDims == 4
MaxFactor == 2
MaxTagLevel == 1

Names == {"S0", "S1"}
Buffers == {"buf0"}
\* Loop levels handed to split, interchange and tile (some out of range).
Levels == 0 .. MaxDims - 1
\* Pairs of levels handed to tile: consecutive ones, and equal ones.
TileLevels == {pr \in Levels \X Levels : pr[2] = pr[1] + 1 \/ pr[2] = pr[1]}
\* Loop levels handed to the tagging calls.
TagLevels == 0 .. MaxTagLevel
\* Split and tile factors handed in (0 is the non-positive one).
Factors == {0, MaxFactor, MaxFactor + 1}

NULL == [null |-> TRUE]

\* ----------------------------------------------------------------------
\* isl values
\* ----------------------------------------------------------------------
\* {name[i] : 0 <= i < n}
Box1(name, n) ==
    [name |-> name, n |-> 1, pts |-> {<<i>> : i \in 0 .. n - 1}]

\* {name[i,j] : 0 <= i < n and 0 <= j < m}
Box2(name, n, m) ==
    [name |-> name, n |-> 2, pts |-> {<<i, j>> : i \in 0 .. n - 1, j \in 0 .. m - 1}]

\* [N, M] -> {name[i,j] : 0 <= i < N and 0 <= j < M}, at N = n and M = m.
ParamBox2(name, n, m) ==
    [name |-> name, n |-> 2, pts |-> {<<i, j>> : i \in 0 .. n - 1, j \in 0 .. m - 1},
     params |-> <<"N", "M">>]

\* The iteration-space strings handed to the constructor of a computation:
\* {S0[i,j] : 0 <= i < 2 and 0 <= j < 3}, {S1[i] : 0 <= i < 4}, and S0 with
\* its bounds as parameters, [N, M] -> {S0[i,j] : 0 <= i < N and 0 <= j < M}.
IterationSpaces ==
    {Box2("S0", MaxFactor, MaxFactor + 1), Box1("S1", 2 * MaxFactor),
     ParamBox2("S0", MaxFactor, MaxFactor + 1)}

\* Faulty variant of isl_set_apply: the points of the set are kept as they
\* are instead of being sent through the map.
isl_set_apply_keeps_points(set, map) ==
    IF set.name = map.in /\ set.n = map.nin
    THEN [name |-> map.out, n |-> map.nout, pts |-> set.pts]
    ELSE NULL

\* isl_set_apply(set, map): the image of the set under the map; an isl error
\* (NULL) when the space of the set is not the domain space of the map.
isl_set_apply(set, map) ==
    IF set.name = map.in /\ set.n = map.nin
    THEN [name |-> map.out, n |-> map.nout,
          pts |-> {pr[2] : pr \in {q \in map.rel : q[1] \in set.pts}}]
    ELSE NULL

\* A function extended (or updated) at one key: std::map insert-or-assign.
Extend(f, k, v) == [x \in DOMAIN f \cup {k} |-> IF x = k THEN v ELSE f[x]]

\* A function with one key erased.
Erase(f, k) == [x \in DOMAIN f \ {k} |-> f[x]]

\* ----------------------------------------------------------------------
\* The text of isl sets and maps
\* ----------------------------------------------------------------------
\* A text is a sequence of tokens: the parameter list "[N, M]", "->", "{",
\* a tuple "C[i, j]", ":", the constraints, "}".
Tok(k) == [k |-> k]

\* The names isl prints for the dimensions of a tuple.
VarNames == <<"i", "j", "k", "l">>

\* The parameters of a set ("[N, M] -> { ... }"), none for a set without.
ParamsOf(set) == IF "params" \in DOMAIN set THEN set.params ELSE <<>>

\* isl_set_to_str: "[params] -> { C[i, j] : constraints }"; a set of one
\* point is printed as "{ C[0, 1] }", without constraints.
isl_set_to_str(set) ==
    (IF ParamsOf(set) = <<>> THEN <<>>
     ELSE <<[k |-> "params", names |-> ParamsOf(set)], Tok("->")>>)
    \o
    (IF Cardinality(set.pts) = 1
     THEN <<Tok("{"),
            [k |-> "tuple", name |-> set.name, n |-> set.n, vars |-> <<>>,
             pt |-> CHOOSE p \in set.pts : TRUE],
            Tok("}")>>
     ELSE <<Tok("{"),
            [k |-> "tuple", name |-> set.name, n |-> set.n,
             vars |-> SubSeq(VarNames, 1, set.n), pt |-> <<>>],
            Tok(":"),
            [k |-> "cons", pts |-> set.pts],
            Tok("}")>>)

\* std::string::find of a token: its first position, 0 when absent (npos).
Find(str, k) ==
    IF \E i \in 1 .. Len(str) : str[i].k = k
    THEN CHOOSE i \in 1 .. Len(str) :
             str[i].k = k /\ \A j \in 1 .. i - 1 : str[j].k # k
    ELSE 0

\* find("]"): the first token that holds a closing bracket.
FindBracket(str) ==
    CHOOSE i \in 1 .. Len(str) :
        /\ str[i].k \in {"params", "tuple"}
        /\ \A j \in 1 .. i - 1 : str[j].k \notin {"params", "tuple"}

\* std::string::erase of the token at position i.
EraseAt(str, i) == SubSeq(str, 1, i - 1) \o SubSeq(str, i + 1, Len(str))

\* std::string::erase from position i to the end.
EraseFrom(str, i) == SubSeq(str, 1, i - 1)

\* std::string::insert of ins before position i.
InsertAt(str, i, ins) == SubSeq(str, 1, i - 1) \o ins \o SubSeq(str, i, Len(str))

\* The text computation::set_identity_schedule builds from the text of the
\* iteration set: domain is the text without "{", "}" and what follows ":";
\* " -> domain" is inserted before ":" (after the first "]" when no ":").
set_identity_schedule_str(str) ==
    LET d1 == EraseAt(str, Find(str, "{"))
        d2 == EraseAt(d1, Find(d1, "}"))
        domain == IF Find(str, ":") # 0 THEN EraseFrom(d2, Find(d2, ":")) ELSE d2
    IN  IF Find(str, ":") # 0
        THEN InsertAt(str, Find(str, ":"), <<Tok("->")>> \o domain)
        ELSE InsertAt(str, FindBracket(str) + 1, <<Tok("->")>> \o domain)

\* The position of variable v in the tuple variables vs.
PosOf(vs, v) == CHOOSE i \in 1 .. Len(vs) : vs[i] = v

\* isl_map_read_from_str: "[params] -> { A[..] -> B[..] : constraints }" is
\* read as the map it denotes, any other text is a syntax error (NULL).
isl_map_read_from_str(str) ==
    LET b == IF Len(str) >= 2 /\ str[1].k = "params" /\ str[2].k = "->"
             THEN SubSeq(str, 3, Len(str)) ELSE str
        kinds == [i \in 1 .. Len(b) |-> b[i].k]
    IN  IF kinds = <<"{", "tuple", "->", "tuple", ":", "cons", "}">>
        THEN [in |-> b[2].name, out |-> b[4].name, nin |-> b[2].n, nout |-> b[4].n,
              rel |-> {<<p, [i \in 1 .. b[4].n |-> p[PosOf(b[2].vars, b[4].vars[i])]]>> :
                          p \in b[6].pts}]
        ELSE IF kinds = <<"{", "tuple", "->", "tuple", "}">>
        THEN [in |-> b[2].name, out |-> b[4].name, nin |-> b[2].n, nout |-> b[4].n,
              rel |-> {<<b[2].pt, b[4].pt>>}]
        ELSE NULL

\* ----------------------------------------------------------------------
\* State
\* ----------------------------------------------------------------------
VARIABLES
    computations_list,      \* names of the computations created so far
    iter_space,             \* computation::iter_space, per computation
    schedule,               \* computation::schedule
    access,                 \* computation::access (NULL until set)
    time_processor_space,   \* computation::time_processor_space (NULL until generated)
    parallel_dimensions,    \* library::parallel_dimensions : name -> level
    vector_dimensions,      \* library::vector_dimensions   : name -> level
    err,                    \* outcome of the last call
    hist,                   \* per computation, the schedule operations that succeeded
    ncalls,                 \* number of calls issued so far
    body,                   \* function::body: the computations in the order added
    ast,                    \* library::ast (NULL until gen_isl_ast succeeds)
    halide_stmt,            \* function::halide_stmt (NULL until generated)
    todo,                   \* the pending work of the descent of the AST
    iterators,              \* the iterator stack of the descent
    leaf_iterators,         \* per computation, the iterator stack recorded at its leaf
    stree,                  \* the syntax tree handed to generate_states
    states,                 \* the candidates generate_states returned
    optim                   \* the optimization type handed to generate_states

compVars == <<computations_list, iter_space, schedule, access, time_processor_space>>
tagVars == <<parallel_dimensions, vector_dimensions>>
genVars == <<ast, halide_stmt, todo, iterators, leaf_iterators>>
sgVars == <<stree, states, optim>>
vars == <<computations_list, iter_space, schedule, access, time_processor_space,
          parallel_dimensions, vector_dimensions, err, hist, ncalls,
          body, ast, halide_stmt, todo, iterators, leaf_iterators,
          stree, states, optim>>

\* The program runs until an assertion aborts it.
Running == err # "abort" /\ ncalls < MaxCalls

\* ----------------------------------------------------------------------
\* Schedules
\* ----------------------------------------------------------------------
\* A tuple with its coordinates in the opposite order.
Reversed(p) == [k \in 1 .. Len(p) |-> p[Len(p) + 1 - k]]

\* Faulty variant of set_identity_schedule: the range dimensions are written
\* in the opposite order of the domain dimensions.
set_identity_schedule_reversed(set) ==
    [in |-> set.name, out |-> set.name, nin |-> set.n, nout |-> set.n,
     rel |-> {<<p, Reversed(p)>> : p \in set.pts}]

\* Faulty variant of set_identity_schedule: the range stops at the first
\* dimension of the domain.
set_identity_schedule_first(set) ==
    [in |-> set.name, out |-> set.name, nin |-> set.n, nout |-> 1,
     rel |-> {<<p, <<p[1]>>>> : p \in set.pts}]

\* computation::set_identity_schedule: "{C[i..] -> C[i..] : constraints}"
\* built from the text of the iteration set and read back as a map (NULL
\* when the text built is not a map).
set_identity_schedule(set) ==
    isl_map_read_from_str(set_identity_schedule_str(isl_set_to_str(set)))

\* computation::set_schedule(isl_map*): the assertion on the tuple names.
set_schedule_assert(map) == map.in = map.out

\* Faulty variant of set_schedule_store: the schedule is shared by all the
\* computations instead of being a field of each.
set_schedule_store_shared(c, map) ==
    [x \in DOMAIN schedule \cup {c} |-> map]

\* computation::set_schedule(isl_map*): this->schedule = map.
set_schedule_store(c, map) == Extend(schedule, c, map)

\* The time tuple t with level d replaced by (t[d] div f, t[d] mod f).
SplitTuple(t, d, f) ==
    [k \in 1 .. Len(t) + 1 |->
        IF k < d + 1 THEN t[k]
        ELSE IF k = d + 1 THEN t[d + 1] \div f
        ELSE IF k = d + 2 THEN t[d + 1] % f
        ELSE t[k - 1]]

\* The time tuple t with levels d1 and d2 swapped.
SwapTuple(t, d1, d2) ==
    [k \in 1 .. Len(t) |->
        IF k = d1 + 1 THEN t[d2 + 1]
        ELSE IF k = d2 + 1 THEN t[d1 + 1]
        ELSE t[k]]

\* The schedule s composed with {C[..,i_d,..] -> C[..,floor(i_d/f), i_d mod f,..]}.
split_map(s, d, f) ==
    [s EXCEPT !.nout = s.nout + 1,
              !.rel = {<<pr[1], SplitTuple(pr[2], d, f)>> : pr \in s.rel}]

\* The schedule s with output dimensions d1 and d2 swapped.
interchange_map(s, d1, d2) ==
    [s EXCEPT !.rel = {<<pr[1], SwapTuple(pr[2], d1, d2)>> : pr \in s.rel}]

\* tile = split(d1, f1); split(d2 + 1, f2); interchange(d1 + 1, d2 + 1).
tile_map(s, d1, d2, f1, f2) ==
    interchange_map(split_map(split_map(s, d1, f1), d2 + 1, f2), d1 + 1, d2 + 1)

\* The schedule that the recorded operation o makes of schedule s.
ApplyOp(s, o) ==
    CASE o.op = "split" -> split_map(s, o.a[1], o.a[2])
      [] o.op = "interchange" -> interchange_map(s, o.a[1], o.a[2])
      [] o.op = "tile" -> tile_map(s, o.a[1], o.a[2], o.a[3], o.a[4])
      [] o.op = "set_schedule" -> o.map

\* The schedule s after the operations of h, in the order issued.
RECURSIVE Replay(_, _)
Replay(s, h) == IF h = <<>> THEN s ELSE Replay(ApplyOp(s, Head(h)), Tail(h))

Init ==
    /\ computations_list = {}
    /\ iter_space = <<>>
    /\ schedule = <<>>
    /\ access = <<>>
    /\ time_processor_space = <<>>
    /\ parallel_dimensions = <<>>
    /\ vector_dimensions = <<>>
    /\ err = "ok"
    /\ hist = <<>>
    /\ ncalls = 0
    /\ body = <<>>
    /\ ast = NULL
    /\ halide_stmt = NULL
    /\ todo = <<>>
    /\ iterators = <<>>
    /\ leaf_iterators = <<>>
    /\ stree = <<>>
    /\ states = <<>>
    /\ optim = "NONE"

\* One entry of the per-computation record of successful schedule operations.
Op(op, a, map) == [op |-> op, a |-> a, map |-> map]

\* The frame of a call that fails or only reports: nothing but err and ncalls moves.
Reject(e) ==
    /\ err' = e
    /\ ncalls' = ncalls + 1
    /\ UNCHANGED <<compVars, tagVars, hist, body, genVars, sgVars>>

\* computation::computation(expr, iteration_space_str, fct)
computation(set) ==
    LET name == set.name IN
    /\ Running
    /\ name \notin computations_list
    /\ IF set_identity_schedule(set) = NULL
       THEN Reject("abort")
       ELSE /\ computations_list' = computations_list \cup {name}
            /\ iter_space' = Extend(iter_space, name, set)
            /\ access' = Extend(access, name, NULL)
            /\ time_processor_space' = Extend(time_processor_space, name, NULL)
            /\ set_schedule_assert(set_identity_schedule(set))
            /\ schedule' = set_schedule_store(name, set_identity_schedule(set))
            /\ hist' = Extend(hist, name, <<>>)
            /\ err' = "ok"
            /\ ncalls' = ncalls + 1
            /\ body' = Append(body, name)
            /\ UNCHANGED <<tagVars, genVars, sgVars>>

\* A successful schedule operation o on computation c, yielding schedule map.
Reschedule(c, map, o) ==
    /\ set_schedule_assert(map)
    /\ schedule' = set_schedule_store(c, map)
    /\ hist' = [hist EXCEPT ![c] = Append(@, o)]
    /\ err' = "ok"
    /\ ncalls' = ncalls + 1
    /\ UNCHANGED <<computations_list, iter_space, access, time_processor_space, tagVars, body, genVars, sgVars>>

\* Faulty variant of split: an out-of-range level is clamped to the innermost
\* level and the schedule rewritten before the error is reported.
split_clamped(c, d, f) ==
    /\ Running
    /\ c \in computations_list
    /\ IF f <= 0
       THEN Reject("InvalidLevel")
       ELSE IF d >= schedule[c].nout
       THEN /\ schedule[c].nout < MaxDims
            /\ schedule' = set_schedule_store(c,
                   split_map(schedule[c], schedule[c].nout - 1, f))
            /\ err' = "InvalidLevel"
            /\ ncalls' = ncalls + 1
            /\ UNCHANGED <<computations_list, iter_space, access,
                           time_processor_space, tagVars, hist, body, genVars, sgVars>>
       ELSE /\ schedule[c].nout < MaxDims
            /\ Reschedule(c, split_map(schedule[c], d, f), Op("split", <<d, f>>, NULL))

\* computation::split(inDim0, sizeX)
split(c, d, f) ==
    /\ Running
    /\ c \in computations_list
    /\ IF d >= schedule[c].nout \/ f <= 0
       THEN Reject("InvalidLevel")
       ELSE /\ schedule[c].nout < MaxDims
            /\ Reschedule(c, split_map(schedule[c], d, f), Op("split", <<d, f>>, NULL))

\* computation::interchange(inDim0, inDim1)
interchange(c, d1, d2) ==
    /\ Running
    /\ c \in computations_list
    /\ IF d1 >= schedule[c].nout \/ d2 >= schedule[c].nout \/ d1 = d2
       THEN Reject("InvalidLevel")
       ELSE Reschedule(c, interchange_map(schedule[c], d1, d2),
                       Op("interchange", <<d1, d2>>, NULL))

\* computation::tile(inDim0, inDim1, sizeX, sizeY)
tile(c, d1, d2, f1, f2) ==
    /\ Running
    /\ c \in computations_list
    /\ IF d2 # d1 + 1 \/ d2 >= schedule[c].nout
       THEN Reject("InvalidLevel")
       ELSE IF f1 <= 0 \/ f2 <= 0
       THEN Reject("InvalidFactor")
       ELSE /\ schedule[c].nout + 2 <= MaxDims
            /\ Reschedule(c, tile_map(schedule[c], d1, d2, f1, f2),
                          Op("tile", <<d1, d2, f1, f2>>, NULL))

\* The maps a caller hands to set_schedule: the identity on the iteration set
\* and the map sending every point to [0], under any pair of tuple names.
ScheduleMaps(c) ==
    {[in |-> a, out |-> b, nin |-> iter_space[c].n, nout |-> iter_space[c].n,
      rel |-> {<<p, p>> : p \in iter_space[c].pts}] : a \in Names, b \in Names}
    \cup
    {[in |-> c, out |-> c, nin |-> iter_space[c].n, nout |-> 1,
      rel |-> {<<p, <<0>>>> : p \in iter_space[c].pts}]}

\* computation::set_schedule(isl_map *map)
set_schedule(c, map) ==
    /\ Running
    /\ c \in computations_list
    /\ IF set_schedule_assert(map)
       THEN Reschedule(c, map, Op("set_schedule", <<>>, map))
       ELSE Reject("abort")

\* The access strings a caller hands to SetWriteAccess.
AccessMaps(c) == {[in |-> c, out |-> b] : b \in Buffers}

\* computation::SetWriteAccess(access_str)
SetWriteAccess(c, map) ==
    /\ Running
    /\ c \in computations_list
    /\ access' = [access EXCEPT ![c] = map]
    /\ err' = "ok"
    /\ ncalls' = ncalls + 1
    /\ UNCHANGED <<computations_list, iter_space, schedule, time_processor_space,
                   tagVars, hist, body, genVars, sgVars>>

\* computation::gen_time_processor_IR()
gen_time_processor_IR(c) ==
    /\ Running
    /\ c \in computations_list
    /\ time_processor_space' =
           [time_processor_space EXCEPT ![c] = isl_set_apply(iter_space[c], schedule[c])]
    /\ err' = "ok"
    /\ ncalls' = ncalls + 1
    /\ UNCHANGED <<computations_list, iter_space, schedule, access, tagVars, hist, body, genVars, sgVars>>

\* ----------------------------------------------------------------------
\* Tags
\* ----------------------------------------------------------------------
\* Faulty variant of parallelize: the level of the entry is not compared.
parallelize_any_level(comp, lev) == comp \in DOMAIN parallel_dimensions

\* library::parallelize(comp, lev)
parallelize(comp, lev) ==
    IF comp \notin DOMAIN parallel_dimensions
    THEN FALSE
    ELSE parallel_dimensions[comp] = lev

\* Faulty variant of vectorize: the level of the entry is not compared.
vectorize_any_level(comp, lev) == comp \in DOMAIN vector_dimensions

\* library::vectorize(comp, lev)
vectorize(comp, lev) ==
    IF comp \notin DOMAIN vector_dimensions
    THEN FALSE
    ELSE vector_dimensions[comp] = lev

\* The tag map `other` once (name, dim) has been tagged with the other kind:
\* re-tagging replaces, so an entry for the same pair is dropped.
Retag(other, name, dim) ==
    IF name \in DOMAIN other /\ other[name] = dim THEN Erase(other, name) ELSE other

\* Faulty variant of parallel_tagged: tagging a pair that is already tagged
\* parallel removes the tag.
parallel_tagged_toggle(par, vec, name, dim) ==
    IF name \in DOMAIN par /\ par[name] = dim
    THEN [par |-> Erase(par, name), vec |-> vec]
    ELSE [par |-> Extend(par, name, dim), vec |-> Retag(vec, name, dim)]

\* The two tag maps after (name, dim) has been recorded as parallel.
parallel_tagged(par, vec, name, dim) ==
    [par |-> Extend(par, name, dim), vec |-> Retag(vec, name, dim)]

\* The two tag maps after (name, dim) has been recorded as vector.
vector_tagged(par, vec, name, dim) ==
    [par |-> Retag(par, name, dim), vec |-> Extend(vec, name, dim)]

\* Faulty variant of add_parallel_dimension: the cached time-processor set
\* of the tagged computation is dropped.
add_parallel_dimension_drops_tp(name, dim) ==
    /\ Running
    /\ parallel_dimensions' =
           parallel_tagged(parallel_dimensions, vector_dimensions, name, dim).par
    /\ vector_dimensions' =
           parallel_tagged(parallel_dimensions, vector_dimensions, name, dim).vec
    /\ time_processor_space' =
           [x \in DOMAIN time_processor_space |->
               IF x = name THEN NULL ELSE time_processor_space[x]]
    /\ err' = "ok"
    /\ ncalls' = ncalls + 1
    /\ UNCHANGED <<computations_list, iter_space, schedule, access, hist, body, genVars, sgVars>>

\* library::add_parallel_dimension(computation_name, vec_dim)
add_parallel_dimension(name, dim) ==
    /\ Running
    /\ parallel_dimensions' =
           parallel_tagged(parallel_dimensions, vector_dimensions, name, dim).par
    /\ vector_dimensions' =
           parallel_tagged(parallel_dimensions, vector_dimensions, name, dim).vec
    /\ err' = "ok"
    /\ ncalls' = ncalls + 1
    /\ UNCHANGED <<compVars, hist, body, genVars, sgVars>>

\* library::add_vector_dimension(computation_name, vec_dim)
add_vector_dimension(name, dim) ==
    /\ Running
    /\ vector_dimensions' =
           vector_tagged(parallel_dimensions, vector_dimensions, name, dim).vec
    /\ parallel_dimensions' =
           vector_tagged(parallel_dimensions, vector_dimensions, name, dim).par
    /\ err' = "ok"
    /\ ncalls' = ncalls + 1
    /\ UNCHANGED <<compVars, hist, body, genVars, sgVars>>

\* computation::tag_parallel_dimension(dim)
tag_parallel_dimension(c, dim) ==
    /\ c \in computations_list
    /\ add_parallel_dimension(c, dim)

\* computation::tag_vector_dimension(dim)
tag_vector_dimension(c, dim) ==
    /\ c \in computations_list
    /\ add_vector_dimension(c, dim)

Next ==
    \/ \E set \in IterationSpaces : computation(set)
    \/ \E c \in Names : \E d \in Levels : \E f \in Factors : split(c, d, f)
    \/ \E c \in Names : \E d1 \in Levels : \E d2 \in Levels : interchange(c, d1, d2)
    \/ \E c \in Names : \E pr \in TileLevels :
          \E f1 \in Factors : \E f2 \in Factors : tile(c, pr[1], pr[2], f1, f2)
    \/ \E c \in computations_list : \E map \in ScheduleMaps(c) : set_schedule(c, map)
    \/ \E c \in Names : \E map \in AccessMaps(c) : SetWriteAccess(c, map)
    \/ \E c \in Names : gen_time_processor_IR(c)
    \/ \E name \in Names : \E dim \in TagLevels : add_parallel_dimension(name, dim)
    \/ \E name \in Names : \E dim \in TagLevels : add_vector_dimension(name, dim)
    \/ \E c \in Names : \E dim \in TagLevels : tag_parallel_dimension(c, dim)
    \/ \E c \in Names : \E dim \in TagLevels : tag_vector_dimension(c, dim)

Spec == Init /\ [][Next]_vars

\* ----------------------------------------------------------------------
\* Properties of the schedule algebra and the tags
\* ----------------------------------------------------------------------
\* The images of iteration point p under schedule s.
Image(s, p) == {pr[2] : pr \in {q \in s.rel : q[1] = p}}

\* t2 is t with level d split by f: t[d] = outer * f + inner, 0 <= inner < f,
\* the levels below d kept and the levels above d shifted by one.
IsSplitOf(t, t2, d, f) ==
    /\ Len(t2) = Len(t) + 1
    /\ t[d + 1] = t2[d + 1] * f + t2[d + 2]
    /\ 0 <= t2[d + 2] /\ t2[d + 2] < f
    /\ \A k \in 1 .. d : t2[k] = t[k]
    /\ \A k \in d + 2 .. Len(t) : t2[k + 1] = t[k]

\* t2 is t with levels d1 and d2 exchanged and every other level kept.
IsSwapOf(t, t2, d1, d2) ==
    /\ Len(t2) = Len(t)
    /\ t2[d1 + 1] = t[d2 + 1]
    /\ t2[d2 + 1] = t[d1 + 1]
    /\ \A k \in 1 .. Len(t) : (k # d1 + 1 /\ k # d2 + 1) => t2[k] = t[k]

\* t2 is t tiled at levels d, d+1 by f1, f2: the order at levels d .. d+3 is
\* (outer of d, outer of d+1, inner of d, inner of d+1).
IsTileOf(t, t2, d, f1, f2) ==
    /\ Len(t2) = Len(t) + 2
    /\ t[d + 1] = t2[d + 1] * f1 + t2[d + 3]
    /\ 0 <= t2[d + 3] /\ t2[d + 3] < f1
    /\ t[d + 2] = t2[d + 2] * f2 + t2[d + 4]
    /\ 0 <= t2[d + 4] /\ t2[d + 4] < f2
    /\ \A k \in 1 .. d : t2[k] = t[k]
    /\ \A k \in d + 3 .. Len(t) : t2[k + 2] = t[k]

\* Schedule s2 relates the same iteration points as s, each time tuple of s
\* replaced by the tuples that R(t, t2) allows.
Rewrites(s, s2, R(_, _)) ==
    /\ \A pr \in s.rel : \E pr2 \in s2.rel : pr2[1] = pr[1] /\ R(pr[2], pr2[2])
    /\ \A pr2 \in s2.rel : \E pr \in s.rel : pr2[1] = pr[1] /\ R(pr[2], pr2[2])

\* The last successful schedule operation on c is op.
LastOp(c, op) == Len(hist[c]) > 0 /\ hist[c][Len(hist[c])].op = op

\* C1: in every reachable state, for every computation C, the domain tuple
\* name of C's schedule equals the range tuple name of C's schedule and equals
\* the tuple name of C's iteration set, which is C's name; a relation whose
\* domain and range tuple names differ never becomes C's schedule.
C1_ScheduleNamedAfterComputation ==
    \A c \in computations_list :
        /\ schedule[c].in = schedule[c].out
        /\ schedule[c].in = iter_space[c].name
        /\ iter_space[c].name = c

\* The step is a successful schedule operation op on c (its arguments are
\* the ones recorded last in hist'[c]).
Did(c, op) ==
    /\ c \in computations_list
    /\ Len(hist'[c]) = Len(hist[c]) + 1
    /\ hist'[c][Len(hist'[c])].op = op

\* The arguments of the schedule operation the step performed on c.
Args(c) == hist'[c][Len(hist'[c])].a

C3_SplitDivMod ==
    [][\A c \in Names :
           Did(c, "split") =>
              LET s == schedule[c]
                  s2 == schedule'[c]
                  d == Args(c)[1]
                  f == Args(c)[2]
                  Splits(t, t2) == IsSplitOf(t, t2, d, f)
              IN /\ d < s.nout /\ f > 0
                 /\ s2.nout = s.nout + 1
                 /\ Rewrites(s, s2, Splits)
                 /\ hist[c] = <<>> =>
                       /\ \A p \in iter_space[c].pts :
                             \E t2 \in Image(s2, p) :
                                 Image(s2, p) = {t2} /\ Splits(p, t2)
                       /\ (iter_space[c].n = 1 /\ Cardinality(iter_space[c].pts) % f = 0) =>
                             /\ Cardinality({pr[2][1] : pr \in s2.rel})
                                   = Cardinality(iter_space[c].pts) \div f
                             /\ Cardinality({pr[2][2] : pr \in s2.rel}) = f]_vars

\* Witness of C3: a freshly created one-dimensional computation has been
\* split by a factor that divides its extent.
C3_Witness ==
    \E c \in computations_list :
        /\ Len(hist[c]) = 1 /\ LastOp(c, "split")
        /\ iter_space[c].n = 1
        /\ Cardinality(iter_space[c].pts) % hist[c][1].a[2] = 0

\* C4: interchange(d1, d2) with distinct d1, d2 < m yields a schedule with
\* the same m output dimensions whose coordinate at level d1 is the old one
\* at level d2 and vice versa, every other level kept; on a freshly created
\* computation over S[i,j], interchange(0,1) puts j outermost and i innermost.
C4_InterchangeSwaps ==
    [][\A c \in Names :
           Did(c, "interchange") =>
              LET s == schedule[c]
                  s2 == schedule'[c]
                  d1 == Args(c)[1]
                  d2 == Args(c)[2]
                  Swaps(t, t2) == IsSwapOf(t, t2, d1, d2)
              IN /\ d1 # d2 /\ d1 < s.nout /\ d2 < s.nout
                 /\ s2.nout = s.nout
                 /\ Rewrites(s, s2, Swaps)
                 /\ (hist[c] = <<>> /\ iter_space[c].n = 2) =>
                       \A p \in iter_space[c].pts : Image(s2, p) = {<<p[2], p[1]>>}]_vars

\* Witness of C4: a freshly created two-dimensional computation has had its
\* two levels interchanged.
C4_Witness ==
    \E c \in computations_list :
        Len(hist[c]) = 1 /\ LastOp(c, "interchange") /\ iter_space[c].n = 2

\* Only split, interchange and tile have been applied to c since its creation.
OnlyTransformed(c) == \A k \in 1 .. Len(hist[c]) : hist[c][k].op # "set_schedule"

\* C5: after any sequence of successful split, interchange and tile
\* operations on a computation created with the identity schedule, its
\* iteration set is the one it was created with, and its schedule maps every
\* point of the iteration set to exactly one time-processor point, distinct
\* points to distinct ones, so that the time-processor set has as many points
\* as the iteration set.
C5_ScheduleInjective ==
    \A c \in computations_list :
        OnlyTransformed(c) =>
            LET s == schedule[c]
                pts == iter_space[c].pts
                tp == isl_set_apply(iter_space[c], s)
            IN /\ iter_space[c] \in IterationSpaces /\ iter_space[c].name = c
               /\ \A p \in pts : Cardinality(Image(s, p)) = 1
               /\ \A p \in pts : \A q \in pts : p # q => Image(s, p) \cap Image(s, q) = {}
               /\ tp # NULL
               /\ Cardinality(tp.pts) = Cardinality(pts)

\* Witness of C5: a two-dimensional computation after two transformations,
\* the last one a split.
C5_Witness ==
    \E c \in computations_list :
        /\ OnlyTransformed(c) /\ Len(hist[c]) = 2 /\ LastOp(c, "split")
        /\ iter_space[c].n = 2

C8_TagsLeaveComputations ==
    [][\A n \in Names : \A dim \in TagLevels :
          (add_parallel_dimension(n, dim) \/ add_vector_dimension(n, dim)) =>
              UNCHANGED <<computations_list, iter_space, schedule, access,
                          time_processor_space>>]_vars

\* Witness of C8: a computation with a transformed schedule and a generated
\* time-processor set is tagged.
C8_Witness ==
    \E c \in computations_list :
        /\ Len(hist[c]) > 0
        /\ time_processor_space[c] # NULL
        /\ c \in DOMAIN parallel_dimensions \cup DOMAIN vector_dimensions

\* C9: tagging is idempotent: in every reachable state, for every name C and
\* level L, the tag maps after tag_parallel(C, L) applied twice are the tag
\* maps after it is applied once, and likewise for tag_vector(C, L).
C9_TagIdempotent ==
    \A n \in Names : \A dim \in TagLevels :
        LET p1 == parallel_tagged(parallel_dimensions, vector_dimensions, n, dim)
            p2 == parallel_tagged(p1.par, p1.vec, n, dim)
            v1 == vector_tagged(parallel_dimensions, vector_dimensions, n, dim)
            v2 == vector_tagged(v1.par, v1.vec, n, dim)
        IN p2 = p1 /\ v2 = v1

\* Witness of C9: a computation that carries a parallel tag at one level and
\* a vector tag at another.
C9_Witness ==
    \E n \in Names :
        /\ n \in DOMAIN parallel_dimensions /\ n \in DOMAIN vector_dimensions
        /\ parallel_dimensions[n] # vector_dimensions[n]

\* C10: in every reachable state no pair (C, L) is both parallel and vector,
\* and tagging (C, L) with one kind makes it that kind only, replacing a tag
\* of the other kind on the same pair.
C10_ParallelXorVector ==
    [][/\ \A n \in Names : \A dim \in TagLevels :
             ~(parallelize(n, dim)' /\ vectorize(n, dim)')
       /\ \A n \in Names : \A dim \in TagLevels :
             /\ add_parallel_dimension(n, dim) =>
                   (parallelize(n, dim)' /\ ~vectorize(n, dim)')
             /\ add_vector_dimension(n, dim) =>
                   (vectorize(n, dim)' /\ ~parallelize(n, dim)')]_vars

\* Witness of C10: a pair (C, L) is tagged vector while C is also in the
\* parallel map, at another level.
C10_Witness ==
    \E n \in Names : \E dim \in TagLevels :
        vectorize(n, dim) /\ n \in DOMAIN parallel_dimensions

\* ----------------------------------------------------------------------
\* Time-processor lowering and the isl AST
\* ----------------------------------------------------------------------
\* The program is alive until an assertion aborts it.
Alive == err # "abort"

\* The elements of a sequence.
Range(q) == {q[i] : i \in 1 .. Len(q)}

\* A union set is a record of its elements <<tuple name, tuple>>, a union
\* map a record of its maps. The elements of the union set that holds the
\* time-processor sets of the computations of b, added in the order of b.
RECURSIVE union_of_time_processor_spaces(_)
union_of_time_processor_spaces(b) ==
    IF b = <<>> THEN {}
    ELSE {<<time_processor_space[Head(b)].name, t>> :
              t \in time_processor_space[Head(b)].pts}
         \cup union_of_time_processor_spaces(Tail(b))

\* library::get_time_processor_representation(): the union over function::body;
\* NULL when there is no computation or one has no time-processor set yet.
library_get_time_processor_representation ==
    IF body = <<>> \/ \E c \in Range(body) : time_processor_space[c] = NULL
    THEN NULL
    ELSE [elems |-> union_of_time_processor_spaces(body)]

\* Faulty variant of get_time_processor_identity_relation: the range keeps
\* the tuple name of the computation.
get_time_processor_identity_relation_named(c) ==
    [in |-> time_processor_space[c].name, out |-> time_processor_space[c].name,
     nin |-> time_processor_space[c].n, nout |-> time_processor_space[c].n,
     rel |-> {<<t, t>> : t \in time_processor_space[c].pts}]

\* computation::get_time_processor_identity_relation(): the identity on the
\* time-processor set, the tuple name of its range erased.
get_time_processor_identity_relation(c) ==
    [in |-> time_processor_space[c].name, out |-> "",
     nin |-> time_processor_space[c].n, nout |-> time_processor_space[c].n,
     rel |-> {<<t, t>> : t \in time_processor_space[c].pts}]

\* library::get_time_processor_identity_relation(): the union map of the
\* identity relations of the computations (NULL as the representation is).
library_get_time_processor_identity_relation ==
    IF library_get_time_processor_representation = NULL THEN NULL
    ELSE [maps |-> {get_time_processor_identity_relation(c) : c \in Range(body)}]

\* isl_union_map_intersect_domain(umap, uset)
isl_union_map_intersect_domain(umap, uset) ==
    [maps |-> {[m EXCEPT !.rel = {pr \in m.rel : <<m.in, pr[1]>> \in uset.elems}] :
                  m \in umap.maps}]

\* The smallest and the largest element of a set of integers.
Min(S) == CHOOSE x \in S : \A y \in S : x <= y
Max(S) == CHOOSE x \in S : \A y \in S : x >= y

\* The statement instances <<name, time tuple>> a schedule map places in the
\* range space sp = <<tuple name, number of dimensions>>.
InstancesIn(sched, sp) ==
    UNION {{<<m.in, pr[2]>> : pr \in m.rel} :
               m \in {x \in sched.maps : <<x.out, x.nout>> = sp}}

\* The values statement c takes at time dimension d among the instances I.
Vals(I, c, d) == {x[2][d + 1] : x \in {y \in I : y[1] = c}}

\* The statements of the instances I.
NamesOf(I) == {x[1] : x \in I}

\* Statements a and b overlap at dimension d: one loop serves both.
Overlap(I, a, b, d) ==
    /\ Min(Vals(I, a, d)) <= Max(Vals(I, b, d))
    /\ Min(Vals(I, b, d)) <= Max(Vals(I, a, d))

\* The statements that share a loop at dimension d with those of S.
RECURSIVE Component(_, _, _)
Component(I, S, d) ==
    LET S2 == S \cup {b \in NamesOf(I) : \E a \in S : Overlap(I, a, b, d)}
    IN  IF S2 = S THEN S ELSE Component(I, S2, d)

\* The groups of statements at dimension d, in the order of their values.
RECURSIVE SortedComponents(_, _, _)
SortedComponents(I, Ks, d) ==
    IF Ks = {} THEN <<>>
    ELSE LET K == CHOOSE K1 \in Ks : \A K2 \in Ks :
                      Min(UNION {Vals(I, c, d) : c \in K1})
                          <= Min(UNION {Vals(I, c, d) : c \in K2})
         IN  <<K>> \o SortedComponents(I, Ks \ {K}, d)

\* One user node per statement of S: the call name(args), guarded by the
\* time tuples the statement is scheduled at.
RECURSIVE user_nodes(_, _, _)
user_nodes(I, S, args) ==
    IF S = {} THEN <<>>
    ELSE LET c == CHOOSE x \in S : TRUE
         IN  <<[kind |-> "user", name |-> c, args |-> args,
                guard |-> {x[2] : x \in {y \in I : y[1] = c}}]>>
             \o user_nodes(I, S \ {c}, args)

\* The AST of the instances I from time dimension d on (of n): per group of
\* statements a for node over the values of dimension d (no node when the
\* dimension has one value: it is substituted in the arguments), the groups
\* in increasing order, the body generated from dimension d + 1.
RECURSIVE ast_nodes(_, _, _, _)
RECURSIVE ast_groups(_, _, _, _, _)
ast_nodes(I, d, n, args) ==
    IF d = n THEN user_nodes(I, NamesOf(I), args)
    ELSE ast_groups(I, SortedComponents(I, {Component(I, {c}, d) : c \in NamesOf(I)}, d),
                    d, n, args)
ast_groups(I, Ks, d, n, args) ==
    IF Ks = <<>> THEN <<>>
    ELSE LET IK == {x \in I : x[1] \in Head(Ks)}
             lo == Min({x[2][d + 1] : x \in IK})
             hi == Max({x[2][d + 1] : x \in IK})
         IN  (IF lo = hi
              THEN ast_nodes(IK, d + 1, n, Append(args, [it |-> FALSE, v |-> lo]))
              ELSE <<[kind |-> "for", iterator |-> d, init |-> lo, cond |-> hi, inc |-> 1,
                      body |-> ast_nodes(IK, d + 1, n,
                                         Append(args, [it |-> TRUE, v |-> d]))]>>)
             \o ast_groups(I, Tail(Ks), d, n, args)

\* The ASTs of the range spaces of sps, concatenated in the order of sps.
RECURSIVE ast_of_spaces(_, _)
ast_of_spaces(sched, sps) ==
    IF sps = <<>> THEN <<>>
    ELSE ast_nodes(InstancesIn(sched, Head(sps)), 0, Head(sps)[2], <<>>)
         \o ast_of_spaces(sched, Tail(sps))

\* The orders in which the elements of the set S can be listed.
Orders(S) ==
    {q \in [1 .. Cardinality(S) -> S] : \A i, j \in 1 .. Cardinality(S) :
                                              i # j => q[i] # q[j]}

\* isl_ast_build_node_from_schedule_map: the ASTs it can return (an AST is
\* a record of its top-level nodes); the
\* instances of one range space are visited in the lexicographic order of
\* their images, the range spaces are handled separately in any order.
isl_ast_build_node_from_schedule_map(sched) ==
    {[nodes |-> ast_of_spaces(sched, sps)] :
         sps \in Orders({<<m.out, m.nout>> : m \in sched.maps})}

\* The value of argument a of a user node under the loop iterators env.
ArgVal(a, env) == IF a.it THEN env[a.v] ELSE a.v

\* The statement instances the nodes execute, in order.
RECURSIVE Exec(_, _)
RECURSIVE ExecLoop(_, _, _)
Exec(nodes, env) ==
    IF nodes = <<>> THEN <<>>
    ELSE LET node == Head(nodes)
             t == [i \in 1 .. Len(node.args) |-> ArgVal(node.args[i], env)]
         IN  (IF node.kind = "user"
              THEN (IF t \in node.guard THEN <<[name |-> node.name, t |-> t]>> ELSE <<>>)
              ELSE ExecLoop(node, node.init, env))
             \o Exec(Tail(nodes), env)
ExecLoop(node, v, env) ==
    IF v > node.cond THEN <<>>
    ELSE Exec(node.body, Extend(env, node.iterator, v)) \o ExecLoop(node, v + 1, env)

\* stmt_code_generator, called by isl at each leaf: it needs the access
\* relation of the computation of the leaf.
stmt_code_generator_fails == \E c \in Range(body) : access[c] = NULL

\* Faulty variant of gen_isl_ast: a missing access relation ends the program
\* instead of being reported.
gen_isl_ast_unreported ==
    /\ Alive
    /\ IF \/ library_get_time_processor_representation = NULL
          \/ library_get_time_processor_identity_relation = NULL
       THEN /\ err' = "abort"
            /\ UNCHANGED ast
       ELSE IF stmt_code_generator_fails
       THEN /\ err' = "abort"
            /\ ast' = NULL
       ELSE /\ err' = "ok"
            /\ ast' \in isl_ast_build_node_from_schedule_map(
                   isl_union_map_intersect_domain(
                       library_get_time_processor_identity_relation,
                       library_get_time_processor_representation))
    /\ UNCHANGED <<compVars, tagVars, hist, ncalls, body,
                   halide_stmt, todo, iterators, leaf_iterators, sgVars>>

\* library::gen_isl_ast()
gen_isl_ast ==
    /\ Alive
    /\ IF \/ library_get_time_processor_representation = NULL
          \/ library_get_time_processor_identity_relation = NULL
       THEN /\ err' = "abort"
            /\ UNCHANGED ast
       ELSE IF stmt_code_generator_fails
       THEN /\ err' = "MissingAccess"
            /\ ast' = NULL
       ELSE /\ err' = "ok"
            /\ ast' \in isl_ast_build_node_from_schedule_map(
                   isl_union_map_intersect_domain(
                       library_get_time_processor_identity_relation,
                       library_get_time_processor_representation))
    /\ UNCHANGED <<compVars, tagVars, hist, ncalls, body,
                   halide_stmt, todo, iterators, leaf_iterators, sgVars>>

\* Faulty variant of get_isl_ast: the AST is returned without the assertion.
get_isl_ast_unasserted ==
    /\ Alive
    /\ err' = "ok"
    /\ UNCHANGED <<compVars, tagVars, hist, ncalls, body, genVars, sgVars>>

\* library::get_isl_ast()
get_isl_ast ==
    /\ Alive
    /\ err' = IF ast = NULL THEN "abort" ELSE "ok"
    /\ UNCHANGED <<compVars, tagVars, hist, ncalls, body, genVars, sgVars>>

\* ----------------------------------------------------------------------
\* The loop-nest synthesizer
\* ----------------------------------------------------------------------
\* The computations whose leaves lie in the nodes.
RECURSIVE computations_under(_)
computations_under(nodes) ==
    IF nodes = <<>> THEN {}
    ELSE (IF Head(nodes).kind = "user" THEN {Head(nodes).name}
          ELSE computations_under(Head(nodes).body))
         \cup computations_under(Tail(nodes))

\* Faulty variant of for_type: the tag is looked up at the level below.
for_type_level_below(node, level) ==
    IF \E c \in computations_under(node.body) : parallelize(c, level + 1)
    THEN "Parallel"
    ELSE IF \E c \in computations_under(node.body) : vectorize(c, level + 1)
    THEN "Vectorized"
    ELSE "Serial"

\* The tag of the For emitted for a for node at the given level: that of a
\* computation whose leaf is under the node.
for_type(node, level) ==
    IF \E c \in computations_under(node.body) : parallelize(c, level)
    THEN "Parallel"
    ELSE IF \E c \in computations_under(node.body) : vectorize(c, level)
    THEN "Vectorized"
    ELSE "Serial"

\* Faulty variant of conflicting_tag: the first matching tag is taken.
conflicting_tag_first_wins(node, level) == FALSE

\* The computations under a for node ask for a parallel and a vector loop.
conflicting_tag(node, level) ==
    /\ \E c \in computations_under(node.body) : parallelize(c, level)
    /\ \E c \in computations_under(node.body) : vectorize(c, level)

\* The Halide statements of the nodes: a For (min, extent) per for node, a
\* Store per user node, its index the iteration point of the time tuple.
RECURSIVE halide_stmts(_, _)
halide_stmts(nodes, level) ==
    IF nodes = <<>> THEN <<>>
    ELSE LET node == Head(nodes)
         IN  <<IF node.kind = "for"
               THEN [kind |-> "For", name |-> node.iterator, min |-> node.init,
                     extent |-> (node.cond + 1) - node.init,
                     for_type |-> for_type(node, level),
                     body |-> halide_stmts(node.body, level + 1)]
               ELSE [kind |-> "Store", buffer |-> access[node.name].out,
                     name |-> node.name, args |-> node.args, guard |-> node.guard,
                     index |-> {<<pr[2], pr[1]>> : pr \in schedule[node.name].rel}]>>
             \o halide_stmts(Tail(nodes), level)

\* The node at path p (child positions from the root) of the nodes.
RECURSIVE NodeAt(_, _)
NodeAt(nodes, p) ==
    IF Len(p) = 1 THEN nodes[p[1]] ELSE NodeAt(nodes[p[1]].body, Tail(p))

\* The visits of the k children of the node at path p, in order.
Visits(p, k) == [i \in 1 .. k |-> [op |-> "visit", path |-> Append(p, i)]]

\* library::gen_halide_stmt(): the descent of the AST begins at its roots.
gen_halide_stmt ==
    /\ Alive
    /\ todo = <<>>
    /\ IF ast = NULL
       THEN /\ err' = "abort"
            /\ UNCHANGED <<halide_stmt, todo, iterators, leaf_iterators>>
       ELSE /\ err' = "ok"
            /\ todo' = Visits(<<>>, Len(ast.nodes))
            /\ iterators' = <<>>
            /\ leaf_iterators' = <<>>
            /\ halide_stmt' = NULL
    /\ UNCHANGED <<compVars, tagVars, hist, ncalls, body, ast, sgVars>>

\* What the descent leaves when the pending work is rest: the statement of
\* the function once nothing is pending.
Descended(rest) ==
    /\ todo' = rest
    /\ halide_stmt' = IF rest = <<>> THEN [stmts |-> halide_stmts(ast.nodes, 0)]
                    ELSE halide_stmt
    /\ err' = "ok"
    /\ UNCHANGED ast

\* Faulty variant of leave_for: the iterator of the loop stays on the stack.
leave_for_keeps_iterator(p) ==
    /\ UNCHANGED iterators
    /\ IF conflicting_tag(NodeAt(ast.nodes, p), Len(p) - 1)
       THEN /\ err' = "ConflictingTag"
            /\ todo' = <<>>
            /\ ast' = NULL
            /\ UNCHANGED halide_stmt
       ELSE Descended(Tail(todo))
    /\ UNCHANGED leaf_iterators

\* The body of the for node at path p is translated: pop its iterator, look
\* up the tag and emit the For; on conflicting tags the generation is
\* given up and the AST of the library is empty again.
leave_for(p) ==
    /\ iterators' = SubSeq(iterators, 1, Len(iterators) - 1)
    /\ IF conflicting_tag(NodeAt(ast.nodes, p), Len(p) - 1)
       THEN /\ err' = "ConflictingTag"
            /\ todo' = <<>>
            /\ ast' = NULL
            /\ UNCHANGED halide_stmt
       ELSE Descended(Tail(todo))
    /\ UNCHANGED leaf_iterators

\* generate_Halide_stmt_from_isl_node: one step of the descent, on the first
\* pending item: a for node pushes its iterator and descends into its body,
\* a user node records the iterator stack for its computation.
generate_Halide_stmt_from_isl_node ==
    /\ Alive
    /\ todo # <<>>
    /\ LET p == Head(todo).path
           node == NodeAt(ast.nodes, p)
       IN  IF Head(todo).op = "leave"
           THEN leave_for(p)
           ELSE IF node.kind = "for"
           THEN /\ iterators' = Append(iterators, node.iterator)
                /\ Descended(Visits(p, Len(node.body))
                             \o <<[op |-> "leave", path |-> p]>> \o Tail(todo))
                /\ UNCHANGED leaf_iterators
           ELSE /\ leaf_iterators' = Extend(leaf_iterators, node.name, iterators)
                /\ Descended(Tail(todo))
                /\ UNCHANGED iterators
    /\ UNCHANGED <<compVars, tagVars, hist, ncalls, body, sgVars>>

\* ----------------------------------------------------------------------
\* Code generation for constructed programs
\* ----------------------------------------------------------------------
\* The iteration spaces of the programs handed to code generation:
\* {S0[i,j] : 0 <= i < 2f and 0 <= j <= 2f} and {S1[i] : 0 <= i < 2f}.
GenSpace(c) ==
    IF c = "S0" THEN Box2("S0", 2 * MaxFactor, 2 * MaxFactor + 1)
    ELSE Box1("S1", 2 * MaxFactor)

\* The schedule {c[i..] -> c[k, i, j]} (j = 0 for a one-dimensional c).
LeadMap(c, k) ==
    [in |-> c, out |-> c, nin |-> GenSpace(c).n, nout |-> 3,
     rel |-> {<<p, <<k>> \o (IF Len(p) = 1 THEN p \o <<0>> ELSE p)>> :
                 p \in GenSpace(c).pts}]

\* The schedule operations issued on a computation before code generation.
GenHistories(c) ==
    IF c = "S0"
    THEN {<<>>,
          <<Op("tile", <<0, 1, MaxFactor, MaxFactor>>, NULL)>>,
          <<Op("set_schedule", <<>>, LeadMap("S0", 1))>>}
    ELSE {<<>>,
          <<Op("split", <<0, MaxFactor>>, NULL)>>,
          <<Op("set_schedule", <<>>, LeadMap("S1", 0))>>}

\* The tag maps with at most one computation tagged.
GenTags(cs) == {<<>>} \cup {[x \in {c} |-> lev] : c \in cs, lev \in TagLevels}

\* The orders in which the computations of a program were added.
GenBodies == {<<>>, <<"S0">>, <<"S1">>, <<"S0", "S1">>, <<"S1", "S0">>}

\* A program as the constructors, the schedule operations, SetWriteAccess and
\* the tagging calls leave it, before any code generation.
InitGen ==
    \E b \in GenBodies :
    \E h \in [Range(b) -> UNION {GenHistories(c) : c \in Names}] :
    \E a \in [Range(b) -> {NULL} \cup UNION {AccessMaps(c) : c \in Names}] :
    \E par \in GenTags(Range(b)) : \E vec \in GenTags(Range(b)) :
        /\ \A c \in Range(b) : h[c] \in GenHistories(c)
        /\ \A c \in Range(b) : a[c] \in {NULL} \cup AccessMaps(c)
        /\ par = <<>> \/ par # vec
        /\ body = b
        /\ computations_list = Range(b)
        /\ iter_space = [c \in Range(b) |-> GenSpace(c)]
        /\ schedule = [c \in Range(b) |->
                          Replay(set_identity_schedule(GenSpace(c)), h[c])]
        /\ hist = h
        /\ access = a
        /\ time_processor_space = [c \in Range(b) |-> NULL]
        /\ parallel_dimensions = par
        /\ vector_dimensions = vec
        /\ err = "ok"
        /\ ncalls = 0
        /\ ast = NULL
        /\ halide_stmt = NULL
        /\ todo = <<>>
        /\ iterators = <<>>
        /\ leaf_iterators = <<>>
        /\ stree = <<>>
        /\ states = <<>>
        /\ optim = "NONE"

\* The calls of code generation; a call is issued when no descent is under
\* way, and the time-processor set of a computation is generated once.
NextGen ==
    \/ \E c \in Range(body) :
          todo = <<>> /\ time_processor_space[c] = NULL /\ gen_time_processor_IR(c)
    \/ todo = <<>> /\ gen_isl_ast
    \/ todo = <<>> /\ get_isl_ast
    \/ gen_halide_stmt
    \/ generate_Halide_stmt_from_isl_node

SpecGen == InitGen /\ [][NextGen]_vars

LexLess(s, t) ==
    \/ \E k \in 1 .. Len(s) :
          /\ k <= Len(t)
          /\ s[k] < t[k]
          /\ \A i \in 1 .. k - 1 : s[i] = t[i]
    \/ /\ Len(s) < Len(t)
       /\ \A i \in 1 .. Len(s) : s[i] = t[i]

\* The statement instances in the order the AST executes them.
Emitted == Exec(ast.nodes, <<>>)

\* C12: of any two emitted statement instances (of the same or of different
\* computations) whose time-processor tuples differ, the one with the
\* lexicographically smaller tuple executes first.
C12_LexOrderOfAllTuples ==
    ast # NULL =>
        LET E == Emitted
        IN  \A a, b \in 1 .. Len(E) :
                (a < b /\ E[a].t # E[b].t) => LexLess(E[a].t, E[b].t)

\* Within one range space the order does hold: every instance of the
\* time-processor sets is emitted once, and of any two emitted instances
\* whose tuples have the same number of coordinates and differ, the one
\* with the lexicographically smaller tuple executes first.
LexOrderWithinSpace ==
    ast # NULL =>
        LET E == Emitted
        IN  /\ \A a, b \in 1 .. Len(E) :
                   (a < b /\ Len(E[a].t) = Len(E[b].t) /\ E[a].t # E[b].t)
                       => LexLess(E[a].t, E[b].t)
            /\ {<<E[a].name, E[a].t>> : a \in 1 .. Len(E)}
                   = library_get_time_processor_representation.elems
            /\ Len(E) = Cardinality(library_get_time_processor_representation.elems)

\* Two computations scheduled with three time coordinates each, S1 under
\* leading coordinate 0 and S0 under 1: every S1 instance is emitted before
\* every S0 instance.
LexOrderWithinSpace_Witness ==
    /\ ast # NULL
    /\ Len(body) = 2
    /\ hist["S0"] # <<>> /\ hist["S0"][1].op = "set_schedule"
    /\ hist["S1"] # <<>> /\ hist["S1"][1].op = "set_schedule"
    /\ LET E == Emitted
       IN  \A a, b \in 1 .. Len(E) : (E[a].name = "S1" /\ E[b].name = "S0") => a < b

\* The identity map on an iteration set, under its tuple name.
IdentityOn(set) ==
    [in |-> set.name, out |-> set.name, nin |-> set.n, nout |-> set.n,
     rel |-> {<<p, p>> : p \in set.pts}]

\* The stores the Halide statements execute, in order: the buffer and the
\* index written.
RECURSIVE Stored(_, _)
RECURSIVE StoredLoop(_, _, _)
Stored(stmts, env) ==
    IF stmts = <<>> THEN <<>>
    ELSE LET st == Head(stmts)
             t == [i \in 1 .. Len(st.args) |-> ArgVal(st.args[i], env)]
         IN  (IF st.kind = "Store"
              THEN (IF t \in st.guard
                    THEN <<[buffer |-> st.buffer,
                            index |-> CHOOSE p \in {pr[2] : pr \in st.index} :
                                          <<t, p>> \in st.index]>>
                    ELSE <<>>)
              ELSE StoredLoop(st, st.min, env))
             \o Stored(Tail(stmts), env)
StoredLoop(st, v, env) ==
    IF v >= st.min + st.extent THEN <<>>
    ELSE Stored(st.body, Extend(env, st.name, v)) \o StoredLoop(st, v + 1, env)

\* C13: a newly created computation has the identity schedule: every call
\* of the constructor on an iteration-space string (its bounds numbers or
\* parameters N, M) yields a computation whose schedule maps each point of
\* the iteration set to the same tuple.
C13_NewComputationHasIdentitySchedule ==
    [][\A set \in IterationSpaces :
           computation(set) =>
               /\ set.name \in computations_list'
               /\ schedule'[set.name] = IdentityOn(set)]_vars

\* With numbers as bounds the loop nest is the one claimed: for the single
\* computation S0 over {S0[i,j] : 0 <= i < N and 0 <= j < M} under its
\* identity schedule, For(c0, 0, N, For(c1, 0, M, Store)), the store executed
\* once per iteration point.
IdentityLoopNest ==
    (halide_stmt # NULL /\ body = <<"S0">> /\ hist["S0"] = <<>>) =>
        LET f0 == halide_stmt.stmts[1]
            f1 == f0.body[1]
            W == Stored(halide_stmt.stmts, <<>>)
        IN  /\ Len(halide_stmt.stmts) = 1 /\ f0.kind = "For"
            /\ f0.min = 0 /\ f0.extent = 2 * MaxFactor
            /\ Len(f0.body) = 1 /\ f1.kind = "For"
            /\ f1.min = 0 /\ f1.extent = 2 * MaxFactor + 1
            /\ Len(f1.body) = 1 /\ f1.body[1].kind = "Store"
            /\ Len(W) = Cardinality(iter_space["S0"].pts)
            /\ {W[k].index : k \in 1 .. Len(W)} = iter_space["S0"].pts

\* The computations whose Store lies in the statements.
RECURSIVE stored_under(_)
stored_under(stmts) ==
    IF stmts = <<>> THEN {}
    ELSE (IF Head(stmts).kind = "Store" THEN {Head(stmts).name}
          ELSE stored_under(Head(stmts).body))
         \cup stored_under(Tail(stmts))

\* The tag the maps of the library hold for the computations cs at level d.
RecordedTag(cs, d) ==
    IF \E c \in cs : c \in DOMAIN parallel_dimensions /\ parallel_dimensions[c] = d
    THEN "Parallel"
    ELSE IF \E c \in cs : c \in DOMAIN vector_dimensions /\ vector_dimensions[c] = d
    THEN "Vectorized"
    ELSE "Serial"

\* Every For of the statements, the outermost at depth d, carries the tag
\* recorded at its depth for a computation stored under it.
RECURSIVE TagsAsRecorded(_, _)
TagsAsRecorded(stmts, d) ==
    \A i \in 1 .. Len(stmts) :
        stmts[i].kind = "For" =>
            /\ stmts[i].for_type = RecordedTag(stored_under(stmts[i].body), d)
            /\ TagsAsRecorded(stmts[i].body, d + 1)

\* The tags of the Fors nested in one another, from the outermost.
RECURSIVE NestTypes(_)
NestTypes(stmts) ==
    IF Len(stmts) = 1 /\ stmts[1].kind = "For"
    THEN <<stmts[1].for_type>> \o NestTypes(stmts[1].body)
    ELSE <<>>

\* The program of the tutorial: S0 alone, tile(0, 1, f, f), tagged parallel
\* at level 1.
Tutorial ==
    /\ body = <<"S0">>
    /\ Len(hist["S0"]) = 1 /\ hist["S0"][1].op = "tile"
    /\ parallel_dimensions = [x \in {"S0"} |-> 1]
    /\ vector_dimensions = <<>>

RECURSIVE SharedTagConflict(_, _)
SharedTagConflict(nodes, d) ==
    \E i \in 1 .. Len(nodes) :
        /\ nodes[i].kind = "for"
        /\ \/ \E c1, c2 \in computations_under(nodes[i].body) :
                 /\ c1 # c2
                 /\ c1 \in DOMAIN parallel_dimensions /\ parallel_dimensions[c1] = d
                 /\ c2 \in DOMAIN vector_dimensions /\ vector_dimensions[c2] = d
           \/ SharedTagConflict(nodes[i].body, d + 1)

\* C15: when two computations share a for node at depth d, one tagged
\* parallel and the other vector at d, the descent ends with ConflictingTag
\* and no statement; it ends with ConflictingTag in that case only, and
\* with the statement of the function otherwise.
C15_ConflictingTagReported ==
    [][(todo # <<>> /\ todo' = <<>>) =>
           /\ SharedTagConflict(ast.nodes, 0) =>
                  (err' = "ConflictingTag" /\ halide_stmt' = NULL)
           /\ err' = "ConflictingTag" => SharedTagConflict(ast.nodes, 0)
           /\ err' # "ConflictingTag" => halide_stmt' # NULL]_vars

\* Code generation has ended with ConflictingTag.
C15_Witness == err = "ConflictingTag"

Enclosing(p) ==
    [i \in 1 .. Len(p) - 1 |-> NodeAt(ast.nodes, SubSeq(p, 1, i)).iterator]

\* The iterators of the for nodes of the nodes that enclose the leaf of
\* computation c, outermost first.
RECURSIVE LoopsAround(_, _)
LoopsAround(nodes, c) ==
    IF nodes = <<>> THEN <<>>
    ELSE IF Head(nodes).kind = "for" /\ c \in computations_under(Head(nodes).body)
    THEN <<Head(nodes).iterator>> \o LoopsAround(Head(nodes).body, c)
    ELSE IF Head(nodes).kind = "user" /\ Head(nodes).name = c
    THEN <<>>
    ELSE LoopsAround(Tail(nodes), c)

Optims == {"FUSION", "TILING", "INTERCHANGE", "UNROLLING", "OTHER"}

\* The configured factor lists of the generator.
tiling_factors_list == <<MaxFactor, 2 * MaxFactor>>

unrolling_factors_list == <<MaxFactor, 2 * MaxFactor>>

\* The concatenation of the first n sequences of ss, in order: what a loop
\* that pushes to the back of a vector leaves behind.
RECURSIVE ConcatTo(_, _)
ConcatTo(ss, n) == IF n = 0 THEN <<>> ELSE ConcatTo(ss, n - 1) \o ss[n]

Concat(ss) == ConcatTo(ss, Cardinality(DOMAIN ss))

\* A loop of the syntax tree: iterator name, bounds, unrolled flag, depth,
\* the computations directly in its body and the loops nested in it.
ast_node(a, depth, computations, children) ==
    [name |-> a.name, low_bound |-> a.low_bound, up_bound |-> a.up_bound,
     unrolled |-> a.unrolled, depth |-> depth,
     computations |-> computations, children |-> children]

\* The iterators the input trees are built from: a loop of extent
\* 2 * MaxFactor, the same loop unrolled, under another name, with another
\* lower bound (extent 2 * MaxFactor - 1) and with another upper bound
\* (extent MaxFactor).
LoopAttrs ==
    { [name |-> "i", low_bound |-> 0, up_bound |-> 2 * MaxFactor - 1, unrolled |-> FALSE],
      [name |-> "i", low_bound |-> 0, up_bound |-> 2 * MaxFactor - 1, unrolled |-> TRUE],
      [name |-> "j", low_bound |-> 0, up_bound |-> 2 * MaxFactor - 1, unrolled |-> FALSE],
      [name |-> "i", low_bound |-> 1, up_bound |-> 2 * MaxFactor - 1, unrolled |-> FALSE],
      [name |-> "i", low_bound |-> 0, up_bound |-> MaxFactor - 1, unrolled |-> FALSE] }

\* An innermost loop around one computation.
LeafLoop(a, depth, c) == ast_node(a, depth, <<c>>, <<>>)

\* The syntax trees handed to the generator (their roots): one to three
\* sibling loops, a loop around two sibling loops, perfect nests of two and
\* three loops, a nest whose outer loop has a computation of its own, a
\* loop around a nest and a loop, a nest next to a loop, and a nest whose
\* inner loop holds two sibling loops.
SyntaxTrees ==
    LET L == LoopAttrs IN
         {<<LeafLoop(a, 0, "S0")>> : a \in L}
    \cup {<<LeafLoop(a, 0, "S0"), LeafLoop(b, 0, "S1")>> : a \in L, b \in L}
    \cup {<<LeafLoop(a, 0, "S0"), LeafLoop(b, 0, "S1"), LeafLoop(c, 0, "S2")>> :
              a \in L, b \in L, c \in L}
    \cup {<<ast_node(a, 0, <<>>, <<LeafLoop(b, 1, "S0"), LeafLoop(c, 1, "S1")>>)>> :
              a \in L, b \in L, c \in L}
    \cup {<<ast_node(a, 0, <<>>, <<LeafLoop(b, 1, "S0")>>)>> : a \in L, b \in L}
    \cup {<<ast_node(a, 0, <<>>,
                <<ast_node(b, 1, <<>>, <<LeafLoop(c, 2, "S0")>>)>>)>> :
              a \in L, b \in L, c \in L}
    \cup {<<ast_node(a, 0, <<"S0">>, <<LeafLoop(b, 1, "S1")>>)>> : a \in L, b \in L}
    \cup {<<ast_node(a, 0, <<>>,
                <<ast_node(b, 1, <<>>, <<LeafLoop(c, 2, "S0")>>),
                  LeafLoop(d, 1, "S1")>>)>> :
              a \in L, b \in L, c \in L, d \in L}
    \cup {<<ast_node(a, 0, <<>>, <<LeafLoop(b, 1, "S0")>>), LeafLoop(c, 0, "S1")>> :
              a \in L, b \in L, c \in L}
    \cup {<<ast_node(a, 0, <<>>,
                <<ast_node(b, 1, <<>>,
                      <<LeafLoop(c, 2, "S0"), LeafLoop(d, 2, "S1")>>)>>)>> :
              a \in L, b \in L, c \in L, d \in L}

\* ast_node::get_extent(): the number of iterations of the loop.
get_extent(node) == node.up_bound - node.low_bound + 1

\* can_split_iterator(extent, factor): the factor evenly divides the extent.
can_split_iterator(it_extent, split_fact) == it_extent % split_fact = 0

\* ast_node::get_loop_levels_chain_depth(): the depth reached (exclusive)
\* by the perfect nest the loop heads; the nest goes on through a loop
\* that has no computation of its own and exactly one nested loop.
RECURSIVE get_loop_levels_chain_depth(_)
get_loop_levels_chain_depth(node) ==
    IF Len(node.children) = 1 /\ node.computations = <<>>
    THEN get_loop_levels_chain_depth(node.children[1])
    ELSE node.depth + 1

\* ast_node::get_all_computations(comps): the computations of the subtree.
RECURSIVE get_all_computations(_)
get_all_computations(node) ==
    node.computations
        \o Concat([k \in DOMAIN node.children |->
                      get_all_computations(node.children[k])])

\* ast_node::get_leftmost_computation()
RECURSIVE get_leftmost_computation(_)
get_leftmost_computation(node) ==
    IF node.computations # <<>> THEN node.computations[1]
    ELSE get_leftmost_computation(node.children[1])

\* ast_node::get_rightmost_computation()
RECURSIVE get_rightmost_computation(_)
get_rightmost_computation(node) ==
    IF node.children # <<>>
    THEN get_rightmost_computation(node.children[Len(node.children)])
    ELSE node.computations[Len(node.computations)]

\* The copy of a list of loops, node by node.
RECURSIVE copy_nodes(_)
copy_nodes(nodes) ==
    IF nodes = <<>> THEN <<>>
    ELSE <<[name |-> Head(nodes).name, low_bound |-> Head(nodes).low_bound,
            up_bound |-> Head(nodes).up_bound, unrolled |-> Head(nodes).unrolled,
            depth |-> Head(nodes).depth,
            computations |-> Head(nodes).computations,
            children |-> copy_nodes(Head(nodes).children)]>>
         \o copy_nodes(Tail(nodes))

\* syntax_tree::copy_and_return_node(new_ast, node): new_ast becomes a copy
\* of the tree, and the node of the copy that corresponds to the node at
\* path `at` (the positions from a root down, counted from 1) is returned.
copy_and_return_node(tree, at) ==
    [new_ast |-> [roots |-> copy_nodes(tree), optims_info |-> <<>>],
     new_node |-> at]

\* new_ast->optims_info.push_back(optim_info); states.push_back(new_ast):
\* the candidate pushed, as a list of one.
pushed(new_ast, optim_info) ==
    <<[roots |-> new_ast.roots,
       optims_info |-> Append(new_ast.optims_info, optim_info)]>>

\* Faulty variant of generate_fusions: the unrolled flag of the second loop
\* is not looked at.
RECURSIVE generate_fusions(_, _, _)
generate_fusions_second_unchecked(tree_level, at, tree) ==
    Concat([i \in DOMAIN tree_level |->
        IF tree_level[i].unrolled THEN <<>>
        ELSE Concat([j \in DOMAIN tree_level |->
            IF j < i + 1 THEN <<>>
            ELSE IF /\ tree_level[i].name = tree_level[j].name
                    /\ tree_level[i].low_bound = tree_level[j].low_bound
                    /\ tree_level[i].up_bound = tree_level[j].up_bound
            THEN LET copied == copy_and_return_node(tree, Append(at, i))
                 IN pushed(copied.new_ast,
                        [type |-> "FUSION",
                         node |-> copied.new_node,
                         comps |-> <<get_rightmost_computation(tree_level[i]),
                                     get_leftmost_computation(tree_level[j])>>,
                         nb_l |-> 2,
                         l0 |-> i - 1,
                         l1 |-> j - 1,
                         l0_fact |-> tree_level[i].depth])
            ELSE <<>>])])
    \o Concat([k \in DOMAIN tree_level |->
                  generate_fusions(tree_level[k].children, Append(at, k), tree)])

\* exhaustive_generator::generate_fusions(tree_level, states, ast): the
\* candidates pushed to states, in order. `at` is the path of the parent of
\* tree_level; the positions l0 and l1 count from 0 as in the code.
generate_fusions(tree_level, at, tree) ==
    Concat([i \in DOMAIN tree_level |->
        IF tree_level[i].unrolled THEN <<>>
        ELSE Concat([j \in DOMAIN tree_level |->
            IF j < i + 1 \/ tree_level[j].unrolled THEN <<>>
            ELSE IF /\ tree_level[i].name = tree_level[j].name
                    /\ tree_level[i].low_bound = tree_level[j].low_bound
                    /\ tree_level[i].up_bound = tree_level[j].up_bound
            THEN LET copied == copy_and_return_node(tree, Append(at, i))
                 IN pushed(copied.new_ast,
                        [type |-> "FUSION",
                         node |-> copied.new_node,
                         comps |-> <<get_rightmost_computation(tree_level[i]),
                                     get_leftmost_computation(tree_level[j])>>,
                         nb_l |-> 2,
                         l0 |-> i - 1,
                         l1 |-> j - 1,
                         l0_fact |-> tree_level[i].depth])
            ELSE <<>>])])
    \o Concat([k \in DOMAIN tree_level |->
                  generate_fusions(tree_level[k].children, Append(at, k), tree)])

\* Faulty variant of generate_tilings: the factor of the second loop is
\* not checked against its extent.
RECURSIVE generate_tilings(_, _, _)
generate_tilings_second_unchecked(node, at, tree) ==
    LET branch_depth == get_loop_levels_chain_depth(node)
        F == tiling_factors_list
        copied == copy_and_return_node(tree, at)
        tiling3(s1, s2) ==
            IF node.depth + 2 < branch_depth
            THEN LET node3 == node.children[1].children[1]
                 IN Concat([t3 \in DOMAIN F |->
                        IF ~can_split_iterator(get_extent(node3), F[t3]) THEN <<>>
                        ELSE pushed(copied.new_ast,
                                 [type |-> "TILING",
                                  node |-> copied.new_node,
                                  nb_l |-> 3,
                                  l0 |-> node.depth,
                                  l1 |-> node.depth + 1,
                                  l2 |-> node.depth + 2,
                                  l0_fact |-> s1,
                                  l1_fact |-> s2,
                                  l2_fact |-> F[t3],
                                  comps |-> get_all_computations(node)])])
            ELSE <<>>
        tiling2 ==
            IF node.depth + 1 < branch_depth
            THEN Concat([t1 \in DOMAIN F |->
                     IF ~can_split_iterator(get_extent(node), F[t1]) THEN <<>>
                     ELSE Concat([t2 \in DOMAIN F |->
                              pushed(copied.new_ast,
                                  [type |-> "TILING",
                                   node |-> copied.new_node,
                                   nb_l |-> 2,
                                   l0 |-> node.depth,
                                   l1 |-> node.depth + 1,
                                   l0_fact |-> F[t1],
                                   l1_fact |-> F[t2],
                                   comps |-> get_all_computations(node)])
                              \o tiling3(F[t1], F[t2])])])
            ELSE <<>>
    IN  tiling2
        \o Concat([k \in DOMAIN node.children |->
                      generate_tilings(node.children[k], Append(at, k), tree)])

\* exhaustive_generator::generate_tilings(node, states, ast): the
\* candidates pushed to states, in order; node is the loop at path `at`.
generate_tilings(node, at, tree) ==
    LET branch_depth == get_loop_levels_chain_depth(node)
        F == tiling_factors_list
        copied == copy_and_return_node(tree, at)
        tiling3(s1, s2) ==
            IF node.depth + 2 < branch_depth
            THEN LET node3 == node.children[1].children[1]
                 IN Concat([t3 \in DOMAIN F |->
                        IF ~can_split_iterator(get_extent(node3), F[t3]) THEN <<>>
                        ELSE pushed(copied.new_ast,
                                 [type |-> "TILING",
                                  node |-> copied.new_node,
                                  nb_l |-> 3,
                                  l0 |-> node.depth,
                                  l1 |-> node.depth + 1,
                                  l2 |-> node.depth + 2,
                                  l0_fact |-> s1,
                                  l1_fact |-> s2,
                                  l2_fact |-> F[t3],
                                  comps |-> get_all_computations(node)])])
            ELSE <<>>
        tiling2 ==
            IF node.depth + 1 < branch_depth
            THEN Concat([t1 \in DOMAIN F |->
                     IF ~can_split_iterator(get_extent(node), F[t1]) THEN <<>>
                     ELSE LET node2 == node.children[1]
                          IN Concat([t2 \in DOMAIN F |->
                                 IF ~can_split_iterator(get_extent(node2), F[t2])
                                 THEN <<>>
                                 ELSE pushed(copied.new_ast,
                                          [type |-> "TILING",
                                           node |-> copied.new_node,
                                           nb_l |-> 2,
                                           l0 |-> node.depth,
                                           l1 |-> node.depth + 1,
                                           l0_fact |-> F[t1],
                                           l1_fact |-> F[t2],
                                           comps |-> get_all_computations(node)])
                                      \o tiling3(F[t1], F[t2])])])
            ELSE <<>>
    IN  tiling2
        \o Concat([k \in DOMAIN node.children |->
                      generate_tilings(node.children[k], Append(at, k), tree)])

\* Faulty variant of generate_interchanges: the levels start at the level
\* of the loop itself.
RECURSIVE generate_interchanges(_, _, _)
generate_interchanges_from_own_level(node, at, tree) ==
    LET branch_depth == get_loop_levels_chain_depth(node)
        copied == copy_and_return_node(tree, at)
    IN  (IF ~node.unrolled
         THEN Concat([n \in 1 .. branch_depth - node.depth |->
                  pushed(copied.new_ast,
                      [type |-> "INTERCHANGE",
                       node |-> copied.new_node,
                       nb_l |-> 2,
                       l0 |-> node.depth,
                       l1 |-> node.depth + n - 1,
                       comps |-> get_all_computations(node)])])
         ELSE <<>>)
        \o Concat([k \in DOMAIN node.children |->
                      generate_interchanges(node.children[k], Append(at, k), tree)])

\* exhaustive_generator::generate_interchanges(node, states, ast)
generate_interchanges(node, at, tree) ==
    LET branch_depth == get_loop_levels_chain_depth(node)
        copied == copy_and_return_node(tree, at)
    IN  (IF ~node.unrolled
         THEN Concat([n \in 1 .. branch_depth - (node.depth + 1) |->
                  pushed(copied.new_ast,
                      [type |-> "INTERCHANGE",
                       node |-> copied.new_node,
                       nb_l |-> 2,
                       l0 |-> node.depth,
                       l1 |-> node.depth + n,
                       comps |-> get_all_computations(node)])])
         ELSE <<>>)
        \o Concat([k \in DOMAIN node.children |->
                      generate_interchanges(node.children[k], Append(at, k), tree)])

\* Faulty variant of generate_unrollings: the loops nested in an unrolled
\* loop are not visited.
RECURSIVE generate_unrollings(_, _, _)
generate_unrollings_stops_at_unrolled(node, at, tree) ==
    LET F == unrolling_factors_list
        copied == copy_and_return_node(tree, at)
    IN  IF ~node.unrolled
        THEN Concat([u \in DOMAIN F |->
                 IF /\ get_extent(node) # F[u]
                    /\ ~can_split_iterator(get_extent(node), F[u])
                 THEN <<>>
                 ELSE pushed(copied.new_ast,
                          [type |-> "UNROLLING",
                           node |-> copied.new_node,
                           nb_l |-> 1,
                           l0 |-> node.depth,
                           l0_fact |-> F[u],
                           comps |-> get_all_computations(node)])])
             \o Concat([k \in DOMAIN node.children |->
                           generate_unrollings(node.children[k], Append(at, k), tree)])
        ELSE <<>>

\* exhaustive_generator::generate_unrollings(node, states, ast)
generate_unrollings(node, at, tree) ==
    LET F == unrolling_factors_list
        copied == copy_and_return_node(tree, at)
    IN  (IF ~node.unrolled
         THEN Concat([u \in DOMAIN F |->
                  IF /\ get_extent(node) # F[u]
                     /\ ~can_split_iterator(get_extent(node), F[u])
                  THEN <<>>
                  ELSE pushed(copied.new_ast,
                           [type |-> "UNROLLING",
                            node |-> copied.new_node,
                            nb_l |-> 1,
                            l0 |-> node.depth,
                            l0_fact |-> F[u],
                            comps |-> get_all_computations(node)])])
         ELSE <<>>)
        \o Concat([k \in DOMAIN node.children |->
                      generate_unrollings(node.children[k], Append(at, k), tree)])

\* exhaustive_generator::generate_states(ast, optim): the vector returned.
generate_states(tree, o) ==
    CASE o = "FUSION" -> generate_fusions(tree, <<>>, tree)
      [] o = "TILING" ->
            Concat([r \in DOMAIN tree |-> generate_tilings(tree[r], <<r>>, tree)])
      [] o = "INTERCHANGE" ->
            Concat([r \in DOMAIN tree |-> generate_interchanges(tree[r], <<r>>, tree)])
      [] o = "UNROLLING" ->
            Concat([r \in DOMAIN tree |-> generate_unrollings(tree[r], <<r>>, tree)])
      [] OTHER -> <<>>

\* A call of generate_states on the syntax tree, for optimization kind o;
\* the tree is passed by const reference.
call_generate_states(o) ==
    /\ states' = generate_states(stree, o)
    /\ optim' = o
    /\ UNCHANGED <<compVars, tagVars, err, hist, ncalls, body, genVars, stree>>

\* A generator over one syntax tree.
InitStates ==
    /\ stree \in SyntaxTrees
    /\ states = <<>>
    /\ optim = "NONE"
    /\ computations_list = {}
    /\ iter_space = <<>>
    /\ schedule = <<>>
    /\ access = <<>>
    /\ time_processor_space = <<>>
    /\ parallel_dimensions = <<>>
    /\ vector_dimensions = <<>>
    /\ err = "ok"
    /\ hist = <<>>
    /\ ncalls = 0
    /\ body = <<>>
    /\ ast = NULL
    /\ halide_stmt = NULL
    /\ todo = <<>>
    /\ iterators = <<>>
    /\ leaf_iterators = <<>>

NextStates == \E o \in Optims : call_generate_states(o)

SpecStates == InitStates /\ [][NextStates]_vars

\* ---------------------------------------------------------------------
\* Properties of the state generator
\* ---------------------------------------------------------------------

\* The loop at path p of a tree given by its roots.
RECURSIVE tree_node(_, _)
tree_node(roots, p) ==
    IF Len(p) = 1 THEN roots[Head(p)]
    ELSE tree_node(roots[Head(p)].children, Tail(p))

\* The paths of all the loops of a tree given by its roots.
RECURSIVE TreePaths(_)
TreePaths(roots) ==
    UNION { {<<k>>} \cup {<<k>> \o q : q \in TreePaths(roots[k].children)} :
            k \in DOMAIN roots }

\* The path of the parent of the loop at path p (empty for a root).
ParentOf(p) == SubSeq(p, 1, Len(p) - 1)

\* The pairs of distinct sibling loops, the left one first, that agree in
\* iterator name, lower bound and upper bound, neither of them unrolled.
FusablePairs(roots) ==
    {pq \in TreePaths(roots) \X TreePaths(roots) :
        /\ Len(pq[1]) = Len(pq[2])
        /\ ParentOf(pq[1]) = ParentOf(pq[2])
        /\ pq[1][Len(pq[1])] < pq[2][Len(pq[2])]
        /\ LET a == tree_node(roots, pq[1])
               b == tree_node(roots, pq[2])
           IN  /\ a.name = b.name
               /\ a.low_bound = b.low_bound
               /\ a.up_bound = b.up_bound
               /\ ~a.unrolled
               /\ ~b.unrolled}

\* The pair of sibling loops a fusion candidate names: the loop its record
\* points at, and the sibling of that loop at position l1.
FusedPair(state) ==
    LET info == state.optims_info[1]
    IN  <<info.node, Append(ParentOf(info.node), info.l1 + 1)>>

\* The candidates returned for FUSION are, one to one, the fusable pairs of
\* sibling loops of the tree; each is a copy of the tree with one FUSION
\* record that names the positions of the two loops, the smaller first.
FusionsOf(roots, result) ==
    /\ Len(result) = Cardinality(FusablePairs(roots))
    /\ {FusedPair(result[k]) : k \in DOMAIN result} = FusablePairs(roots)
    /\ \A k \in DOMAIN result :
          /\ result[k].roots = roots
          /\ Len(result[k].optims_info) = 1
          /\ LET info == result[k].optims_info[1]
             IN  /\ info.type = "FUSION"
                 /\ info.nb_l = 2
                 /\ info.l0 = info.node[Len(info.node)] - 1
                 /\ info.l0 < info.l1

\* C19: generate_states(ast, FUSION) returns exactly one candidate for
\* every unordered pair of distinct sibling loops (two roots, or two
\* children of one node, at any depth) with equal iterator name, lower
\* bound and upper bound and neither unrolled, and none for any other pair;
\* each candidate is a copy of the tree with a single FUSION record naming
\* the two positions i < j; the input tree is not modified.
C19_FusionCandidates ==
    [][optim' = "FUSION" =>
          /\ stree' = stree
          /\ FusionsOf(stree, states')]_vars

\* A fusion candidate for two loops two levels below the roots has been
\* returned.
C19_Witness ==
    /\ optim = "FUSION"
    /\ \E k \in DOMAIN states : Len(states[k].optims_info[1].node) = 3

\* The loops of the perfect nest headed by a loop, outermost first: the
\* nest goes on below a loop that has a single nested loop and no
\* computation of its own.
RECURSIVE PerfectNest(_)
PerfectNest(node) ==
    IF Len(node.children) = 1 /\ node.computations = <<>>
    THEN <<node>> \o PerfectNest(node.children[1])
    ELSE <<node>>

\* The factors of the configured tiling list.
TilingFactors == {tiling_factors_list[k] : k \in DOMAIN tiling_factors_list}

\* The number of iterations of a loop, from its bounds.
Extent(node) == node.up_bound + 1 - node.low_bound

\* The tilings of n loops due for a tree: for each loop that heads a
\* perfect nest of at least n loops, each choice of n factors of the list
\* that evenly divide the extents of the first n loops of the nest, with
\* the levels of these loops.
TilingsDue(roots, n) ==
    UNION { LET nest == PerfectNest(tree_node(roots, p))
            IN  IF Len(nest) < n THEN {}
                ELSE {[node |-> p,
                       levels |-> [k \in 1 .. n |-> nest[1].depth + k - 1],
                       factors |-> f] :
                      f \in {g \in [1 .. n -> TilingFactors] :
                                \A k \in 1 .. n : Extent(nest[k]) % g[k] = 0}} :
            p \in TreePaths(roots) }

\* The loop, levels and factors a tiling candidate records.
TilingOf(state) ==
    LET info == state.optims_info[1]
    IN  [node |-> info.node,
         levels |-> IF info.nb_l = 2 THEN <<info.l0, info.l1>>
                    ELSE <<info.l0, info.l1, info.l2>>,
         factors |-> IF info.nb_l = 2 THEN <<info.l0_fact, info.l1_fact>>
                     ELSE <<info.l0_fact, info.l1_fact, info.l2_fact>>]

UnrollingFactors ==
    {unrolling_factors_list[k] : k \in DOMAIN unrolling_factors_list}

\* The unrollings due for a tree: for each loop that is not unrolled, each
\* factor of the list that the extent of the loop equals or is evenly
\* divisible by, with the level of the loop.
UnrollingsDue(roots) ==
    {[node |-> pf[1], level |-> tree_node(roots, pf[1]).depth, factor |-> pf[2]] :
        pf \in {qf \in TreePaths(roots) \X UnrollingFactors :
                   LET loop == tree_node(roots, qf[1])
                   IN  /\ ~loop.unrolled
                       /\ Extent(loop) = qf[2] \/ Extent(loop) % qf[2] = 0}}

\* The loop, level and factor an unrolling candidate records.
UnrollingOf(state) ==
    LET info == state.optims_info[1]
    IN  [node |-> info.node, level |-> info.l0, factor |-> info.l0_fact]

\* C21: generate_states(ast, UNROLLING) emits one unrolling candidate, with
\* the depth of the loop as level and the factor recorded, for every loop
\* of the tree and every factor of the unrolling list that the extent of
\* the loop equals or is evenly divisible by, and none otherwise; a loop
\* whose unrolled flag is set yields no candidate, and the loops nested in
\* it are still visited.
C21_UnrollingCandidates ==
    optim = "UNROLLING" =>
        /\ Len(states) = Cardinality(UnrollingsDue(stree))
        /\ {UnrollingOf(states[k]) : k \in DOMAIN states} = UnrollingsDue(stree)
        /\ \A k \in DOMAIN states :
              /\ states[k].roots = stree
              /\ Len(states[k].optims_info) = 1
              /\ states[k].optims_info[1].type = "UNROLLING"
              /\ states[k].optims_info[1].nb_l = 1

\* Unrollings have been returned for a loop nested in an unrolled loop,
\* none for the unrolled loop, and some factor of the list has been passed
\* over for a loop that is not unrolled.
C21_Witness ==
    /\ optim = "UNROLLING"
    /\ \E k \in DOMAIN states :
          LET at == states[k].optims_info[1].node
          IN  /\ Len(at) >= 2
              /\ tree_node(stree, ParentOf(at)).unrolled
    /\ \E p \in TreePaths(stree) : \E f \in UnrollingFactors :
          /\ ~tree_node(stree, p).unrolled
          /\ Extent(tree_node(stree, p)) % f # 0

\* The interchanges of the loops `heads` of a tree: for a loop at depth k
\* whose perfect nest reaches depth D (exclusive), each level l with
\* k < l < D, with the levels (k, l).
InterchangesOf(roots, heads) ==
    UNION { LET loop == tree_node(roots, p)
                D == loop.depth + Len(PerfectNest(loop))
            IN  {[node |-> p, levels |-> <<loop.depth, l>>] :
                    l \in loop.depth + 1 .. D - 1} :
            p \in heads }

\* The loop and the levels an interchange candidate records.
InterchangeOf(state) ==
    LET info == state.optims_info[1]
    IN  [node |-> info.node, levels |-> <<info.l0, info.l1>>]

\* The candidates returned are, one to one, the interchanges `due`, each a
\* copy of the tree with one INTERCHANGE record of two levels.
InterchangesReturned(due) ==
    /\ Len(states) = Cardinality(due)
    /\ {InterchangeOf(states[k]) : k \in DOMAIN states} = due
    /\ \A k \in DOMAIN states :
          /\ states[k].roots = stree
          /\ Len(states[k].optims_info) = 1
          /\ states[k].optims_info[1].type = "INTERCHANGE"
          /\ states[k].optims_info[1].nb_l = 2

\* C22: generate_states(ast, INTERCHANGE) emits, for each loop of the tree,
\* one candidate swapping it with each descendant in its perfect nest: for
\* a loop at depth k whose nest reaches depth D (exclusive), exactly one
\* candidate per level l with k < l < D, with levels (k, l), and none that
\* swaps a loop with itself or with a loop outside its nest.
C22_InterchangeCandidates ==
    optim = "INTERCHANGE" =>
        InterchangesReturned(InterchangesOf(stree, TreePaths(stree)))

\* The loops of a tree whose unrolled flag is not set.
LoopsNotUnrolled(roots) ==
    {p \in TreePaths(roots) : ~tree_node(roots, p).unrolled}

\* C22, amended: generate_states(ast, INTERCHANGE) emits, for each loop of
\* the tree whose unrolled flag is not set, exactly one candidate per level
\* l with k < l < D, with levels (k, l), where k is the depth of the loop
\* and D the depth its perfect nest reaches (exclusive); a loop whose
\* unrolled flag is set yields no candidate, the loops nested in it are
\* still visited; no candidate swaps a loop with itself or with a loop
\* outside its nest.
C22_InterchangeCandidatesOfLoopsNotUnrolled ==
    optim = "INTERCHANGE" =>
        InterchangesReturned(InterchangesOf(stree, LoopsNotUnrolled(stree)))

\* Interchanges have been returned for a nest of three loops: the outer
\* loop with each of the two below it, and the middle loop with the inner
\* one, which is unrolled.
C22_Witness ==
    /\ optim = "INTERCHANGE"
    /\ Len(states) = 3
    /\ \E k \in DOMAIN states :
          /\ states[k].optims_info[1].l0 = 0
          /\ states[k].optims_info[1].l1 = 2
    /\ \E k \in DOMAIN states : states[k].optims_info[1].l0 = 1
    /\ \E p \in TreePaths(stree) : tree_node(stree, p).unrolled

\* ---------------------------------------------------------------------
\* One tagged level per computation
\* ---------------------------------------------------------------------

\* C23: the tag maps are keyed by the computation name alone, so each
\* computation has at most one parallel level and at most one vector level:
\* parallelize(C, L) holds for at most one L, and for no L as long as C has
\* not been tagged parallel (likewise vectorize); after tag_parallel(C, L1)
\* followed by tag_parallel(C, L2) with L1 # L2 the two levels are never
\* both reported parallel.
C23_OneLevelPerComputation ==
    /\ \A n \in Names : \A dim \in TagLevels :
          ~parallelize(n, dim) /\ ~vectorize(n, dim)
    /\ [][/\ \A n \in Names : \A l1 \in TagLevels : \A l2 \in TagLevels :
                /\ parallelize(n, l1)' /\ parallelize(n, l2)' => l1 = l2
                /\ vectorize(n, l1)' /\ vectorize(n, l2)' => l1 = l2
          /\ \A n \in Names :
                /\ (/\ \A dim \in TagLevels : ~parallelize(n, dim)
                    /\ \E dim \in TagLevels : parallelize(n, dim)')
                      => \E dim \in TagLevels : add_parallel_dimension(n, dim)
                /\ (/\ \A dim \in TagLevels : ~vectorize(n, dim)
                    /\ \E dim \in TagLevels : vectorize(n, dim)')
                      => \E dim \in TagLevels : add_vector_dimension(n, dim)
          /\ \A n \in Names : \A l1 \in TagLevels : \A l2 \in TagLevels :
                (l1 # l2 /\ parallelize(n, l1) /\ add_parallel_dimension(n, l2))
                    => ~(parallelize(n, l1)' /\ parallelize(n, l2)')]_vars

\* One computation is parallel at the innermost tag level and at no other
\* and carries a vector tag at another level, while a second computation
\* of the function has no parallel tag.
C23_Witness ==
    \E n \in computations_list : \E m \in computations_list :
        /\ parallelize(n, MaxTagLevel)
        /\ \A dim \in TagLevels : dim # MaxTagLevel => ~parallelize(n, dim)
        /\ \E dim \in TagLevels : vectorize(n, dim)
        /\ m # n
        /\ \A dim \in TagLevels : ~parallelize(m, dim)

====
